---- MODULE Spec2Model ----
(***************************************************************************)
(* EthicCompanion backend: the moderation engine, the provider selection   *)
(* and fallback policy, and the two request pipelines (the legacy /chat    *)
(* endpoint and the enhanced /ask_ethical endpoint).                       *)
(*                                                                         *)
(* Texts are TLA+ strings; keyword tests (Python `in`) and the regular     *)
(* expressions of the guardrails are computed character by character.     *)
(* Confidence values are in hundredths (0.95 is 95).                       *)
(***************************************************************************)
EXTENDS Integers, Sequences, FiniteSets, TLC

VARIABLES
    providers,          \* LLMOrchestrator.providers: name -> [available]
    gemini_model,       \* LLMService has attribute gemini_model
    openai_client,      \* EthicalGuardrailsService.openai_client is set
    pipeline,           \* endpoint serving the current request
    pc,                 \* position of the handler of the current request
    request,            \* the request being served
    moderation_result,  \* verdict of input moderation
    relevant_context,   \* result of get_relevant_context
    provider,           \* provider returned by _select_provider
    fb_index,           \* position of the loop of _fallback_provider
    llm_response,       \* value returned by generation
    is_safe_output,     \* verdict of check_output ("True", "False"), None before
    gen_calls,          \* provider generation calls of the current request
    retrieval_calls,    \* retrieval calls of the current request
    outcome,            \* what the caller receives
    raised_before,      \* providers whose generate raised in earlier requests
    faults,             \* what went wrong around the current request
    background_tasks,   \* tasks handed to BackgroundTasks by the current request
    start,              \* chunk_content: index where the next chunk starts
    chunks              \* chunk_content: the chunks so far, as slices of content

vars == <<providers, gemini_model, openai_client, pipeline, pc, request,
          moderation_result, relevant_context, provider, fb_index,
          llm_response, is_safe_output, gen_calls, retrieval_calls, outcome,
          raised_before, faults, background_tasks, start, chunks>>

None == "None"

(***************************************************************************)
(* Bounds                                                                  *)
(***************************************************************************)
\* texts given to the moderation engine are at most this many fragments
MaxFragments == 2

(***************************************************************************)
(* Strings                                                                 *)
(***************************************************************************)
CharAt(s, i) == SubSeq(s, i, i)

UpperToLower ==
    [c \in {"A","B","C","D","E","F","G","H","I","J","K","L","M","N","O","P",
            "Q","R","S","T","U","V","W","X","Y","Z"} |->
        CASE c = "A" -> "a" [] c = "B" -> "b" [] c = "C" -> "c" [] c = "D" -> "d"
          [] c = "E" -> "e" [] c = "F" -> "f" [] c = "G" -> "g" [] c = "H" -> "h"
          [] c = "I" -> "i" [] c = "J" -> "j" [] c = "K" -> "k" [] c = "L" -> "l"
          [] c = "M" -> "m" [] c = "N" -> "n" [] c = "O" -> "o" [] c = "P" -> "p"
          [] c = "Q" -> "q" [] c = "R" -> "r" [] c = "S" -> "s" [] c = "T" -> "t"
          [] c = "U" -> "u" [] c = "V" -> "v" [] c = "W" -> "w" [] c = "X" -> "x"
          [] c = "Y" -> "y" [] c = "Z" -> "z"]

\* str.lower(), the string split in halves to keep the recursion shallow
RECURSIVE lower(_)
lower(s) ==
    IF Len(s) = 0 THEN ""
    ELSE IF Len(s) = 1
        THEN (IF s \in DOMAIN UpperToLower THEN UpperToLower[s] ELSE s)
    ELSE lower(SubSeq(s, 1, Len(s) \div 2))
         \o lower(SubSeq(s, (Len(s) \div 2) + 1, Len(s)))

\* str.replace(old, new) for a one-character old
RECURSIVE replace(_, _, _)
replace(s, old, new) ==
    IF Len(s) = 0 THEN ""
    ELSE IF Len(s) = 1 THEN (IF s = old THEN new ELSE s)
    ELSE replace(SubSeq(s, 1, Len(s) \div 2), old, new)
         \o replace(SubSeq(s, (Len(s) \div 2) + 1, Len(s)), old, new)

\* " ".join(list)
RECURSIVE join(_)
join(list) ==
    IF Len(list) = 0 THEN ""
    ELSE IF Len(list) = 1 THEN list[1]
    ELSE list[1] \o " " \o join(Tail(list))

MatchAt(s, i, lit) ==
    /\ i >= 1
    /\ i + Len(lit) - 1 <= Len(s)
    /\ SubSeq(s, i, i + Len(lit) - 1) = lit

\* Python's  sub in s
Contains(s, sub) == \E i \in 1..(Len(s) - Len(sub) + 1) : MatchAt(s, i, sub)


(***************************************************************************)
(* Regular expressions.  Every pattern of the guardrails is a sequence of  *)
(* pieces joined by ".*"; a piece is a list of alternative literals with   *)
(* an optional \b on each side.  A literal prefix or suffix shared by the  *)
(* alternatives is distributed over them:                                  *)
(*   \bi want to (die|kill myself)\b  is  \b(i want to die|i want to kill  *)
(*   myself)\b.                                                            *)
(***************************************************************************)
\* \w
WordChars ==
    {"a","b","c","d","e","f","g","h","i","j","k","l","m","n","o","p","q","r",
     "s","t","u","v","w","x","y","z","0","1","2","3","4","5","6","7","8","9",
     "_"} \cup DOMAIN UpperToLower

IsWordAt(s, i) == i >= 1 /\ i <= Len(s) /\ CharAt(s, i) \in WordChars

\* \b between the characters g and g+1 (g = 0 is the start, g = Len(s) the end)
WordBoundary(s, g) == IsWordAt(s, g) # IsWordAt(s, g + 1)

Piece(b1, alts, b2) == [open |-> b1, alts |-> alts, close |-> b2]
Bounded(alts) == Piece(TRUE, alts, TRUE)
Literal(alts) == Piece(FALSE, alts, FALSE)

\* the piece matches s from position i with its alternative a
PieceAt(s, i, piece, a) ==
    /\ MatchAt(s, i, a)
    /\ piece.open => WordBoundary(s, i - 1)
    /\ piece.close => WordBoundary(s, i + Len(a) - 1)

\* "." does not match a newline
NoNewline(s, from, to) == \A k \in from..to : CharAt(s, k) # "\n"

\* pieces k.. of the pattern match, piece k starting at or after `from`
RECURSIVE MatchFrom(_, _, _, _)
MatchFrom(s, pattern, k, from) ==
    \/ k > Len(pattern)
    \/ \E i \in from..Len(s) :
          /\ NoNewline(s, from, i - 1)
          /\ \E n \in 1..Len(pattern[k].alts) :
                /\ PieceAt(s, i, pattern[k], pattern[k].alts[n])
                /\ MatchFrom(s, pattern, k + 1, i + Len(pattern[k].alts[n]))

\* re.search(pattern, s) is not None
re_search(pattern, s) ==
    \E i \in 1..Len(s) :
        \E n \in 1..Len(pattern[1].alts) :
            /\ PieceAt(s, i, pattern[1], pattern[1].alts[n])
            /\ MatchFrom(s, pattern, 2, i + Len(pattern[1].alts[n]))

(***************************************************************************)
(* EthicalGuardrailsService (the enhanced moderation engine)               *)
(***************************************************************************)
ethical_keywords ==
    <<"information overload", "news fatigue", "digital overwhelm",
      "media consumption", "social media", "news anxiety",
      "fact checking", "misinformation", "filter bubble",
      "mindfulness", "meditation", "breathing", "stress relief",
      "anxiety", "calm", "peace", "relaxation", "grounding",
      "mental health", "wellness", "self care",
      "ethics", "moral", "values", "principles", "right", "wrong",
      "responsibility", "conscience", "integrity", "compassion",
      "help", "volunteer", "community", "support", "positive impact",
      "make a difference", "contribute", "assist", "aid">>

crisis_keywords ==
    <<"suicide", "kill myself", "end it all", "can't go on",
      "self harm", "hurt myself", "cutting", "overdose",
      "emergency", "crisis", "desperate", "hopeless",
      "abuse", "violence", "threat", "danger">>

off_topic_patterns ==
    << <<Bounded(<<"invest", "stock", "crypto", "bitcoin", "trading", "money",
                   "financial advice">>)>>,
       <<Bounded(<<"political", "election", "vote", "democrat", "republican",
                   "liberal", "conservative">>)>>,
       <<Bounded(<<"medical", "doctor", "diagnose", "treatment", "medication",
                   "prescription">>)>>,
       <<Bounded(<<"legal", "lawyer", "court", "lawsuit", "sue", "illegal">>)>>,
       <<Bounded(<<"sexual", "adult", "explicit", "nsfw">>)>> >>

crisis_patterns ==
    << <<Bounded(<<"i want to die", "i want to kill myself",
                   "i want to end it all">>)>>,
       <<Bounded(<<"i can't take it anymore", "i can't go on anymore",
                   "i can't handle this anymore">>)>>,
       <<Bounded(<<"nothing matters">>), Bounded(<<"what's the point">>)>>,
       <<Bounded(<<"no one would miss me">>)>> >>

toxic_patterns ==
    << <<Bounded(<<"hate", "stupid", "idiot", "moron", "dumb">>),
         Bounded(<<"people", "person", "you">>)>>,
       <<Piece(TRUE, <<"kill", "hurt", "harm">>, FALSE),
         Bounded(<<"others", "someone", "people">>)>>,
       <<Bounded(<<"fuck you", "fuck off", "fuck this">>)>>,
       <<Bounded(<<"racist", "sexist", "homophobic">>)>> >>

\* the list a loop builds by appending mapped[n] for each n that passes the
\* test of the loop, in order
RECURSIVE Comprehend(_, _, _)
Comprehend(mapped, passing, n) ==
    IF n = 0 THEN <<>>
    ELSE Comprehend(mapped, passing, n - 1)
            \o (IF n \in passing THEN <<mapped[n]>> ELSE <<>>)

\* _detect_crisis_situations
DetectCrisisSituations(text) ==
    LET text_lower == lower(text)
        with_keyword == {n \in 1..Len(crisis_keywords) :
                            Contains(text_lower, crisis_keywords[n])}
        indicator == [n \in 1..Len(crisis_keywords) |->
                        "crisis_indicator_"
                            \o replace(crisis_keywords[n], " ", "_")]
        with_pattern == {n \in 1..Len(crisis_patterns) :
                            re_search(crisis_patterns[n], text_lower)}
        detected == [n \in 1..Len(crisis_patterns) |->
                        "crisis_pattern_detected"]
        indicators ==
            Comprehend(indicator, with_keyword, Len(crisis_keywords))
            \o Comprehend(detected, with_pattern, Len(crisis_patterns))
    IN  [is_crisis |-> Len(indicators) > 0, indicators |-> indicators]

\* the on_topic_score of _detect_off_topic_content
OnTopicScore(text_lower) ==
    Cardinality({i \in 1..Len(ethical_keywords) :
                    Contains(text_lower, ethical_keywords[i])})

\* _detect_off_topic_content
DetectOffTopicContent(text) ==
    LET text_lower == lower(text)
        matching == {n \in 1..Len(off_topic_patterns) :
                        re_search(off_topic_patterns[n], text_lower)}
        topic_name == [n \in 1..Len(off_topic_patterns) |->
                        "off_topic_" \o off_topic_patterns[n][1].alts[1]]
        detected == Comprehend(topic_name, matching, Len(off_topic_patterns))
        on_topic_score == OnTopicScore(text_lower)
        detected_topics == IF Len(detected) > 0 /\ on_topic_score > 0
                           THEN <<"mild_off_topic">> ELSE detected
    IN  [is_off_topic |-> Len(detected_topics) > 0 /\ on_topic_score = 0,
         topics |-> detected_topics]

\* _check_basic_toxicity
CheckBasicToxicity(text) ==
    LET text_lower == lower(text)
        issues == IF \E n \in 1..Len(toxic_patterns) :
                        re_search(toxic_patterns[n], text_lower)
                  THEN <<"toxic_language">> ELSE <<>>
    IN  [is_toxic |-> Len(issues) > 0, issues |-> issues]

\* what the external moderation API can answer to one call; categories
\* lists the categories the answer marks as flagged
NoClient == [client |-> FALSE]
ModerationApiAnswers ==
    {[client |-> TRUE, raises |-> TRUE,  flagged |-> FALSE, categories |-> <<>>],
     [client |-> TRUE, raises |-> FALSE, flagged |-> FALSE, categories |-> <<>>],
     [client |-> TRUE, raises |-> FALSE, flagged |-> TRUE,  categories |-> <<>>],
     [client |-> TRUE, raises |-> FALSE, flagged |-> TRUE,
      categories |-> <<"hate">>]}

\* _check_external_moderation with an except branch that flags the text
CheckExternalModerationFailClosed(api) ==
    LET flagged == 1..Len(api.categories)
        tag == [n \in 1..Len(api.categories) |->
                    "openai_" \o api.categories[n]]
    IN  IF api.client /\ ~api.raises
        THEN [flagged |-> api.flagged,
              categories |-> IF api.flagged
                             THEN Comprehend(tag, flagged, Len(api.categories))
                             ELSE <<>>]
        ELSE [flagged |-> TRUE, categories |-> <<"openai_error">>]

\* _check_external_moderation
CheckExternalModeration(api) ==
    LET flagged == 1..Len(api.categories)
        tag == [n \in 1..Len(api.categories) |->
                    "openai_" \o api.categories[n]]
    IN  IF api.client /\ ~api.raises
        THEN [flagged |-> api.flagged,
              categories |-> IF api.flagged
                             THEN Comprehend(tag, flagged, Len(api.categories))
                             ELSE <<>>]
        ELSE [flagged |-> FALSE, categories |-> <<>>]

\* _generate_explanation
GenerateExplanation(flags, is_safe) ==
    IF is_safe /\ Len(flags) = 0
        THEN "Content appears to be appropriate ethical guidance discussion."
    ELSE IF Contains(join(flags), "crisis")
        THEN "Content indicates a potential crisis situation. Please consider reaching out to mental health professionals or crisis hotlines."
    ELSE IF Contains(join(flags), "off_topic")
        THEN "Content appears to be outside EthicCompanion's focus area of ethical information management and inner peace."
    ELSE IF Contains(join(flags), "toxic")
        THEN "Content contains potentially harmful language that doesn't align with constructive ethical discussion."
    ELSE "Content flagged for review to ensure it aligns with ethical guidance principles."

\* moderate_content with the crisis check dropped when the text is on topic
ModerateContentOnTopicFirst(text, api) ==
    LET crisis_result == DetectCrisisSituations(text)
        off_topic_result == DetectOffTopicContent(text)
        toxicity_result == CheckBasicToxicity(text)
        on_topic == OnTopicScore(lower(text)) > 0
        flags == (IF crisis_result.is_crisis /\ ~on_topic
                     THEN crisis_result.indicators ELSE <<>>)
                 \o (IF off_topic_result.is_off_topic
                        THEN off_topic_result.topics ELSE <<>>)
                 \o (IF toxicity_result.is_toxic
                        THEN toxicity_result.issues ELSE <<>>)
        is_safe == \A n \in 1..Len(flags) : flags[n] \in {"mild_off_topic"}
    IN  [is_safe |-> is_safe, flags |-> flags,
         confidence |-> IF crisis_result.is_crisis THEN 95 ELSE 80,
         explanation |-> GenerateExplanation(flags, is_safe)]

\* moderate_content with its list of flags kept from one call to the next
ModerateContentKeepingFlags(text, api) ==
    LET crisis_result == DetectCrisisSituations(text)
        off_topic_result == DetectOffTopicContent(text)
        toxicity_result == CheckBasicToxicity(text)
        flags == (IF pc = "moderate_again"
                     THEN moderation_result.flags ELSE <<>>)
                 \o (IF crisis_result.is_crisis
                        THEN crisis_result.indicators ELSE <<>>)
                 \o (IF off_topic_result.is_off_topic
                        THEN off_topic_result.topics ELSE <<>>)
                 \o (IF toxicity_result.is_toxic
                        THEN toxicity_result.issues ELSE <<>>)
        is_safe == \A n \in 1..Len(flags) : flags[n] \in {"mild_off_topic"}
    IN  [is_safe |-> is_safe, flags |-> flags,
         confidence |-> IF crisis_result.is_crisis THEN 95 ELSE 80,
         explanation |-> GenerateExplanation(flags, is_safe)]

\* moderate_content with a verdict that tolerates one flag of any kind
ModerateContentOneFlagSafe(text, api) ==
    LET crisis_result == DetectCrisisSituations(text)
        off_topic_result == DetectOffTopicContent(text)
        toxicity_result == CheckBasicToxicity(text)
        external_result == IF api.client THEN CheckExternalModeration(api)
                           ELSE [flagged |-> FALSE, categories |-> <<>>]
        flags == (IF crisis_result.is_crisis
                     THEN crisis_result.indicators ELSE <<>>)
                 \o (IF off_topic_result.is_off_topic
                        THEN off_topic_result.topics ELSE <<>>)
                 \o (IF toxicity_result.is_toxic
                        THEN toxicity_result.issues ELSE <<>>)
                 \o (IF external_result.flagged
                        THEN external_result.categories ELSE <<>>)
        is_safe == Len(flags) <= 1
    IN  [is_safe |-> is_safe, flags |-> flags,
         confidence |-> IF crisis_result.is_crisis THEN 95 ELSE 80,
         explanation |-> GenerateExplanation(flags, is_safe)]

\* moderate_content
ModerateContent(text, api) ==
    LET crisis_result == DetectCrisisSituations(text)
        off_topic_result == DetectOffTopicContent(text)
        toxicity_result == CheckBasicToxicity(text)
        external_result == IF api.client THEN CheckExternalModeration(api)
                           ELSE [flagged |-> FALSE, categories |-> <<>>]
        flags == (IF crisis_result.is_crisis
                     THEN crisis_result.indicators ELSE <<>>)
                 \o (IF off_topic_result.is_off_topic
                        THEN off_topic_result.topics ELSE <<>>)
                 \o (IF toxicity_result.is_toxic
                        THEN toxicity_result.issues ELSE <<>>)
                 \o (IF external_result.flagged
                        THEN external_result.categories ELSE <<>>)
        is_safe == Len(flags) = 0
                   \/ \A n \in 1..Len(flags) : flags[n] \in {"mild_off_topic"}
    IN  [is_safe |-> is_safe, flags |-> flags,
         confidence |-> IF crisis_result.is_crisis THEN 95 ELSE 80,
         explanation |-> GenerateExplanation(flags, is_safe)]

\* the verdict of the except branch, if it blocked instead of letting through
ModerationErrorFailClosed ==
    [is_safe |-> FALSE, flags |-> <<"moderation_error">>,
     confidence |-> 10,
     explanation |-> "Content moderation service temporarily unavailable"]

\* moderate_content: the verdict of its except branch
ModerationError ==
    [is_safe |-> TRUE, flags |-> <<"moderation_error">>,
     confidence |-> 10,
     explanation |-> "Content moderation service temporarily unavailable"]

\* steer_conversation_ethically
SteerConversationEthically(user_query) ==
    LET text_lower == lower(user_query)
    IN  IF re_search(<<Bounded(<<"invest", "crypto", "trading", "money",
                                 "financial">>)>>, text_lower)
            THEN "I'm designed to help with ethical guidance on information management and finding inner peace. For financial advice, I'd recommend consulting with certified financial advisors who can provide personalized guidance based on your specific situation."
        ELSE IF re_search(<<Bounded(<<"political", "election", "vote",
                                      "party">>)>>, text_lower)
            THEN "I focus on helping with ethical information management rather than political discussions. I can help you find peace with overwhelming political news or develop healthy media consumption habits. Would you like guidance on managing political information overload?"
        ELSE IF re_search(<<Bounded(<<"medical", "doctor", "symptoms",
                                      "diagnosis">>)>>, text_lower)
            THEN "I can't provide medical advice, but I can help with the ethical aspects of health information management. For medical concerns, please consult healthcare professionals. I can help you manage health-related information overwhelm or anxiety about medical news if that would be helpful."
        ELSE IF re_search(<<Bounded(<<"legal", "lawyer", "court",
                                      "lawsuit">>)>>, text_lower)
            THEN "I'm not able to provide legal advice, but I can help with ethical guidance on information management. For legal matters, please consult qualified legal professionals. Is there an ethical dimension to information or peace-finding that I can help with instead?"
        ELSE None

(***************************************************************************)
(* EthicalGuardrails (the legacy guardrails)                               *)
(***************************************************************************)
harmful_keywords ==
    <<"violence", "violência", "matar", "kill", "hurt", "ferir",
      "weapon", "arma", "bomb", "bomba",
      "hate", "ódio", "racism", "racismo", "sexism", "sexismo",
      "discrimination", "discriminação",
      "suicide", "suicídio", "self-harm", "autolesão",
      "cut myself", "me cortar",
      "sexual explicit", "sexo explícito", "pornography", "pornografia",
      "drugs", "drogas", "illegal", "ilegal", "crime", "criminal">>

harmful_patterns ==
    << <<Literal(<<"how to kill", "how to hurt", "how to harm">>)>>,
       <<Literal(<<"como matar", "como ferir", "como machucar">>)>>,
       <<Literal(<<"i want to die", "i want to kill myself">>)>>,
       <<Literal(<<"quero morrer", "quero me matar">>)>>,
       <<Literal(<<"hate all", "hate everyone">>)>>,
       <<Literal(<<"odeio todos", "odeio todo mundo">>)>> >>

inappropriate_advice_patterns ==
    << <<Literal(<<"you should take medication", "you should take pills",
                   "you should take drugs">>)>>,
       <<Literal(<<"deve tomar medicamento", "deve tomar remédio",
                   "deve tomar droga">>)>>,
       <<Literal(<<"diagnose you with">>)>>,
       <<Literal(<<"diagnostico você com">>)>>,
       <<Literal(<<"legal advice">>), Literal(<<"sue">>)>>,
       <<Literal(<<"conselho legal">>), Literal(<<"processar">>)>>,
       <<Literal(<<"invest">>), Literal(<<"money">>), Literal(<<"guaranteed">>)>>,
       <<Literal(<<"invista">>), Literal(<<"dinheiro">>), Literal(<<"garantido">>)>> >>

\* sum(1 for keyword in self.harmful_keywords if keyword in text_lower)
HarmfulCount(text_lower) ==
    Cardinality({n \in 1..Len(harmful_keywords) :
                    Contains(text_lower, harmful_keywords[n])})

\* _check_harmful_patterns
CheckHarmfulPatterns(text) ==
    \E n \in 1..Len(harmful_patterns) : re_search(harmful_patterns[n], text)

\* _contains_inappropriate_advice
ContainsInappropriateAdvice(text) ==
    \E n \in 1..Len(inappropriate_advice_patterns) :
        re_search(inappropriate_advice_patterns[n], text)

\* check_input
CheckInput(text) ==
    LET text_lower == lower(text)
    IN  IF HarmfulCount(text_lower) >= 2 THEN FALSE
        ELSE IF CheckHarmfulPatterns(text_lower) THEN FALSE
        ELSE TRUE

\* check_output with the threshold of check_input
CheckOutputTwoHits(text) ==
    LET text_lower == lower(text)
    IN  IF HarmfulCount(text_lower) >= 2 THEN FALSE
        ELSE IF ContainsInappropriateAdvice(text_lower) THEN FALSE
        ELSE TRUE

\* check_output
CheckOutput(text) ==
    LET text_lower == lower(text)
    IN  IF HarmfulCount(text_lower) >= 1 THEN FALSE
        ELSE IF ContainsInappropriateAdvice(text_lower) THEN FALSE
        ELSE TRUE

(***************************************************************************)
(* LLMService and RAGService (the legacy services)                         *)
(***************************************************************************)
\* _generate_fallback_response
GenerateFallbackResponse(user_message) ==
    "\n        Obrigado pela sua pergunta sobre \""
    \o user_message \o
    "\". \n        \n        Como assistente ético, encorajo-o a:\n        \n        1. **Refletir** sobre os aspectos éticos da situação\n        2. **Considerar** o impacto das suas ações nos outros\n        3. **Buscar** perspectivas diversas antes de tomar decisões\n        4. **Praticar** a empatia e compreensão\n        \n        Para uma experiência mais personalizada, por favor configure as chaves de API dos modelos de linguagem.\n        \n        Como posso ajudá-lo a explorar esta questão de forma mais profunda?\n        "

keyword_mapping ==
    << <<"principios", "principles">>, <<"principles", "principles">>,
       <<"ética", "principles">>, <<"ethics", "principles">>,
       <<"sobrecarga", "information_overload_guide">>,
       <<"overload", "information_overload_guide">>,
       <<"informação", "information_overload_guide">>,
       <<"information", "information_overload_guide">>,
       <<"stress", "information_overload_guide">>,
       <<"ansiedade", "information_overload_guide">>,
       <<"anxiety", "information_overload_guide">>,
       <<"paz", "peace_techniques">>, <<"peace", "peace_techniques">>,
       <<"mindfulness", "peace_techniques">>,
       <<"meditação", "peace_techniques">>,
       <<"meditation", "peace_techniques">>,
       <<"respiração", "peace_techniques">>,
       <<"breathing", "peace_techniques">> >>

\* the relevant_docs of RAGService.get_relevant_context
LegacyRelevantDocs(query) ==
    LET query_lower == lower(query)
        found == {keyword_mapping[n][2] : n \in
                    {m \in 1..Len(keyword_mapping) :
                        Contains(query_lower, keyword_mapping[m][1])}}
    IN  IF found = {} THEN {"principles"} ELSE found

RefusalMessage ==
    "Desculpe, não posso responder a essa pergunta. Vamos focar em tópicos construtivos?"

ReformulationMessage ==
    "Peço desculpa, mas preciso reformular a resposta. Como posso ajudá-lo de forma mais construtiva?"

\* ChatResponse(message=..., conversation_id=...)
ChatResponse(message) ==
    [status_code |-> 200, error_code |-> None, message |-> message,
     details |-> None, body |-> None]


(***************************************************************************)
(* LLMOrchestrator (the enhanced provider registry, selection, fallback)   *)
(***************************************************************************)
\* the members of the enum LLMProvider
LLMProvider == {"gemini", "claude", "gemma_3n", "auto"}

\* self.provider_priorities
provider_priorities ==
    [ethical_classification |-> <<"gemma_3n", "gemini", "claude">>,
     crisis_detection |-> <<"gemma_3n", "claude", "gemini">>,
     general_guidance |-> <<"gemini", "gemma_3n", "claude">>,
     multimodal |-> <<"gemma_3n", "gemini">>]

\* _initialize_providers: a provider without an API key gets no entry, and
\* gemma_3n is a placeholder that is never available
InitializeProviders(gemini_key, claude_key) ==
    [p \in ({"gemma_3n"} \cup (IF gemini_key THEN {"gemini"} ELSE {})
                         \cup (IF claude_key THEN {"claude"} ELSE {})) |->
        [available |-> p # "gemma_3n"]]

\* self.providers.get(p, {}).get("available")
Available(p) == p \in DOMAIN providers /\ providers[p].available

Raise == "raise"

\* the default priority of _select_provider
SelectionOrder == <<"gemini", "claude", "gemma_3n">>

\* a selection that remembers its last answer and passes over it
SelectProviderRoundRobin(preferred, has_image) ==
    LET others == {n \in 1..Len(SelectionOrder) :
                      /\ Available(SelectionOrder[n])
                      /\ SelectionOrder[n] # provider}
    IN  IF others # {}
            THEN SelectionOrder[CHOOSE n \in others : \A m \in others : n <= m]
        ELSE IF \E n \in 1..Len(SelectionOrder) : Available(SelectionOrder[n])
            THEN provider
        ELSE Raise

\* _select_provider; Raise is Exception("No LLM providers available")
SelectProvider(preferred, has_image) ==
    IF preferred # "auto" /\ Available(preferred) THEN preferred
    ELSE IF has_image /\ Available("gemini") THEN "gemini"
    ELSE IF \E n \in 1..Len(SelectionOrder) : Available(SelectionOrder[n])
         THEN SelectionOrder[CHOOSE n \in 1..Len(SelectionOrder) :
                  /\ Available(SelectionOrder[n])
                  /\ \A m \in 1..(n - 1) : ~Available(SelectionOrder[m])]
    ELSE Raise

\* the providers _fallback_provider tries, in order
FallbackOrder == <<"gemini", "claude">>

\* what a provider that answers can generate
GeneratedTexts ==
    {"Take a slow breath and limit your news intake to one trusted source.",
     "You could hurt them back."}

\* the LLMResponse of _call_gemini and _call_claude
CallResponse(p, content) ==
    [content |-> content,
     model_used |-> IF p = "gemini" THEN "gemini-pro" ELSE "claude-3-sonnet",
     confidence |-> IF p = "gemini" THEN 85 ELSE 87,
     fallback_used |-> FALSE]

\* the last resort of _fallback_provider
UltimateFallback ==
    [content |-> "I'm experiencing technical difficulties. Please try again later or contact support.",
     model_used |-> "fallback",
     confidence |-> 10,
     fallback_used |-> TRUE]

\* _call_gemma_3n raises NotImplementedError; the other calls can fail
CanSucceed(p) == p \in {"gemini", "claude"}

(***************************************************************************)
(* EthicalRAGService.get_relevant_context                                  *)
(***************************************************************************)
\* k of the call in ask_ethical_guidance
RetrieveK == 5
\* passages attached as sources
TopSources == 3

\* distances the index answers with, in hundredths, nearest first
NearestDistance == 40
DistanceStep == 30
\* how many passages a search finds: none, fewer than k, or k
ResultSizes == {0, 2, RetrieveK}

\* passages at the same distance come in runs of this length
TieRuns == {1, 2}

\* results of similarity_search_with_score: at most k passages, nearest
\* first, doc_id being the rank the index gave
SearchResults ==
    {[i \in 1..n |->
        [doc_id |-> i,
         distance |-> NearestDistance + DistanceStep * ((i - 1) \div run)]] :
        n \in ResultSizes, run \in TieRuns}

\* the passages of get_relevant_context on the LangChain path
RelevantContext(docs) ==
    [i \in 1..Len(docs) |->
        [content |-> docs[i].doc_id,
         relevance_score |-> 100 - (docs[i].distance \div 2)]]

\* the passages of get_relevant_context on the direct ChromaDB path
RelevantContextCollection(docs) ==
    [i \in 1..Len(docs) |->
        [content |-> docs[i].doc_id,
         relevance_score |-> 100 - docs[i].distance]]

\* what the index does when get_relevant_context calls it
SearchOutcomes ==
    {[kind |-> "answered", docs |-> docs] : docs \in SearchResults}
        \cup {[kind |-> "store_not_initialized", docs |-> <<>>],
              [kind |-> "search_raised", docs |-> <<>>]}

\* get_relevant_context without its except branch
GetRelevantContextUnguarded(search) ==
    [raised |-> search.kind = "search_raised",
     passages |-> IF search.kind = "answered"
                     THEN RelevantContext(search.docs) ELSE <<>>]

\* get_relevant_context: the passages it returns, and whether it raised
GetRelevantContext(search) ==
    [raised |-> FALSE,
     passages |-> IF search.kind = "answered"
                     THEN RelevantContext(search.docs) ELSE <<>>]

(***************************************************************************)
(* Responses of ask_ethical_guidance                                       *)
(***************************************************************************)
\* HTTPException(400, ErrorResponse(CONTENT_FILTERED, ...))
ContentFiltered(flags) ==
    [status_code |-> 400, error_code |-> "content_filtered",
     message |-> "Content violates ethical guidelines",
     details |-> flags, body |-> None]

\* an exception that would leave the handler as it was raised: no reason code
Unconverted(e) ==
    [status_code |-> 500, error_code |-> None, message |-> e,
     details |-> None, body |-> None]

\* HTTPException(500, ErrorResponse(INTERNAL_ERROR, ...)), details = str(e)
InternalError(e) ==
    [status_code |-> 500, error_code |-> "internal_error",
     message |-> "An unexpected error occurred while processing your request",
     details |-> e, body |-> None]

\* the sources without the truncation to the first three passages
SourcesUntruncated(context) ==
    [i \in 1..Len(context) |->
        [title |-> "Knowledge Base",
         content_snippet |-> context[i].content,
         relevance_score |-> context[i].relevance_score]]

\* sources of the response: the first three passages
Sources(context) ==
    [i \in 1..(IF Len(context) < TopSources THEN Len(context) ELSE TopSources) |->
        [title |-> "Knowledge Base",
         content_snippet |-> context[i].content,
         relevance_score |-> context[i].relevance_score]]

\* EthicalSource validates 0 <= relevance_score <= 1
SourcesValid(sources) ==
    \A i \in 1..Len(sources) :
        sources[i].relevance_score >= 0 /\ sources[i].relevance_score <= 100

\* steps 4 to 9 of ask_ethical_guidance: the response, or the error raised
BuildResponse(context, verdict, response) ==
    LET sources == Sources(context)
        provider_used == lower(response.model_used)
    IN  IF ~SourcesValid(sources)
            THEN InternalError("relevance_score: value out of range")
        ELSE IF provider_used \notin LLMProvider
            THEN InternalError("'" \o provider_used \o "' is not a valid LLMProvider")
        ELSE [status_code |-> 200, error_code |-> None, message |-> None,
              details |-> None,
              body |-> [ethical_advice |-> response.content,
                        sources |-> sources,
                        llm_metadata |->
                            [provider_used |-> provider_used,
                             model_name |-> response.model_used,
                             confidence_score |-> response.confidence,
                             fallback_used |-> response.fallback_used],
                        content_safety |->
                            [safety_score |-> verdict.confidence,
                             ethical_assessment |-> "approved",
                             sensitive_topics |-> verdict.flags]]]

(***************************************************************************)
(* Inputs                                                                  *)
(***************************************************************************)
\* pieces of text the moderation engine is given
Fragments ==
    {"End It All", "I want to die", "invest", "investment", "vote", "help",
     "bright", "racist"}

RECURSIVE TextsOf(_)
TextsOf(n) ==
    IF n = 1 THEN Fragments
    ELSE {t \o " " \o f : t \in TextsOf(n - 1), f \in Fragments}

Texts == UNION {TextsOf(n) : n \in 1..MaxFragments}

\* queries sent to the endpoints
Queries ==
    {"I want to end it all",
     "How should I invest my savings?",
     "How can I reduce my news anxiety?",
     "Is it right to vote?",
     "I want to die"}

PreferredProviders == LLMProvider


(***************************************************************************)
(* State machine                                                           *)
(***************************************************************************)
NoRequest ==
    /\ pipeline = None
    /\ pc = "idle"
    /\ request = None
    /\ moderation_result = None
    /\ relevant_context = None
    /\ provider = None
    /\ fb_index = 0
    /\ llm_response = None
    /\ is_safe_output = None
    /\ gen_calls = <<>>
    /\ retrieval_calls = 0
    /\ outcome = None
    /\ faults = {}
    /\ background_tasks = <<>>
    /\ start = 0
    /\ chunks = <<>>

\* the services as constructed at import time
Init ==
    /\ \E gemini_key \in BOOLEAN, claude_key \in BOOLEAN :
          /\ providers = InitializeProviders(gemini_key, claude_key)
          /\ gemini_model = gemini_key
    /\ openai_client \in BOOLEAN
    /\ NoRequest
    /\ raised_before = {}

\* providers of the orchestrator whose call raised during the current request
RaisedNow ==
    IF pipeline = "enhanced"
        THEN {gen_calls[n].provider :
                n \in {m \in 1..Len(gen_calls) : ~gen_calls[m].ok}}
        ELSE {}

\* a request reaches an endpoint of the idle process
Accept(endpoint, req, first) ==
    /\ pc = "idle"
    /\ pipeline' = endpoint
    /\ request' = req
    /\ pc' = first
    /\ UNCHANGED <<providers, gemini_model, openai_client, moderation_result,
                   relevant_context, provider, fb_index, llm_response,
                   is_safe_output, gen_calls, retrieval_calls, outcome,
                   raised_before, faults, background_tasks, start, chunks>>

\* the handler has returned or raised: the state of the request is dropped
Return ==
    /\ pc = "done"
    /\ pipeline' = None
    /\ pc' = "idle"
    /\ request' = None
    /\ moderation_result' = None
    /\ relevant_context' = None
    /\ provider' = None
    /\ fb_index' = 0
    /\ llm_response' = None
    /\ is_safe_output' = None
    /\ gen_calls' = <<>>
    /\ retrieval_calls' = 0
    /\ outcome' = None
    /\ faults' = {}
    /\ background_tasks' = <<>>
    /\ start' = 0
    /\ chunks' = <<>>
    /\ raised_before' = raised_before \cup RaisedNow
    /\ UNCHANGED <<providers, gemini_model, openai_client>>

Services == <<providers, gemini_model, openai_client, pipeline, request,
              raised_before, background_tasks, start, chunks>>

Frame == UNCHANGED <<Services, faults>>

\* one provider call: its entry in the log of calls
Call(p, ok) == [provider |-> p, ok |-> ok]

(* The enhanced endpoint: ask_ethical_guidance *)
ReceiveEnhanced ==
    \E q \in Queries, preferred \in PreferredProviders, image \in BOOLEAN :
        Accept("enhanced",
               [user_query |-> q, preferred_llm |-> preferred,
                image_data |-> image, user_stress_level |-> "moderate"],
               "moderate_input")

\* step 1 without the early exit on an unsafe verdict
EnhancedModerateInputNoExit ==
    /\ pipeline = "enhanced" /\ pc = "moderate_input"
    /\ \E api \in (IF openai_client THEN ModerationApiAnswers ELSE {NoClient}) :
          moderation_result' = ModerateContent(request.user_query, api)
    /\ pc' = "retrieve"
    /\ UNCHANGED <<relevant_context, provider, fb_index, llm_response,
                   is_safe_output, gen_calls, retrieval_calls, outcome>>
    /\ Frame

\* step 1: moderate the query; an unsafe verdict ends the request
EnhancedModerateInput ==
    /\ pipeline = "enhanced" /\ pc = "moderate_input"
    /\ \E api \in (IF openai_client THEN ModerationApiAnswers ELSE {NoClient}) :
          LET verdict == ModerateContent(request.user_query, api)
          IN  /\ moderation_result' = verdict
              /\ IF ~verdict.is_safe
                    THEN /\ outcome' = ContentFiltered(verdict.flags)
                         /\ pc' = "done"
                    ELSE /\ outcome' = outcome
                         /\ pc' = "retrieve"
    /\ UNCHANGED <<relevant_context, provider, fb_index, llm_response,
                   is_safe_output, gen_calls, retrieval_calls>>
    /\ Frame

\* step 1 when a check inside moderate_content raises: moderate_content
\* returns the verdict of its except branch to the endpoint
EnhancedModerateInputError ==
    /\ pipeline = "enhanced" /\ pc = "moderate_input"
    /\ moderation_result' = ModerationError
    /\ faults' = faults \cup {"moderation_raised"}
    /\ IF ~ModerationError.is_safe
          THEN /\ outcome' = ContentFiltered(ModerationError.flags)
               /\ pc' = "done"
          ELSE /\ outcome' = outcome
               /\ pc' = "retrieve"
    /\ UNCHANGED <<relevant_context, provider, fb_index, llm_response,
                   is_safe_output, gen_calls, retrieval_calls>>
    /\ UNCHANGED Services

\* step 2 when the index never answers: nothing bounds the wait
EnhancedRetrieveNeverReturns ==
    /\ pipeline = "enhanced" /\ pc = "retrieve"
    /\ retrieval_calls' = retrieval_calls + 1
    /\ faults' = faults \cup {"search_never_returns"}
    /\ pc' = "waiting"
    /\ UNCHANGED <<moderation_result, relevant_context, provider, fb_index,
                   llm_response, is_safe_output, gen_calls, outcome>>
    /\ UNCHANGED Services

\* step 2: get_relevant_context(query, k=5)
EnhancedRetrieve ==
    /\ pipeline = "enhanced" /\ pc = "retrieve"
    /\ \E search \in SearchOutcomes :
          LET result == GetRelevantContext(search)
          IN  /\ faults' = faults \cup ({search.kind} \ {"answered"})
              /\ IF result.raised
                    THEN /\ outcome' = InternalError("search failed")
                         /\ pc' = "done"
                         /\ relevant_context' = relevant_context
                    ELSE /\ relevant_context' = result.passages
                         /\ pc' = "select"
                         /\ outcome' = outcome
    /\ retrieval_calls' = retrieval_calls + 1
    /\ UNCHANGED <<moderation_result, provider, fb_index, llm_response,
                   is_safe_output, gen_calls>>
    /\ UNCHANGED Services

\* get_ethical_guidance: _select_provider; its exception reaches the handler
EnhancedSelect ==
    /\ pipeline = "enhanced" /\ pc = "select"
    /\ LET selected == SelectProvider(request.preferred_llm, request.image_data)
       IN  IF selected = Raise
              THEN /\ outcome' = InternalError("No LLM providers available")
                   /\ pc' = "done"
                   /\ provider' = provider
              ELSE /\ provider' = selected
                   /\ pc' = "call_primary"
                   /\ outcome' = outcome
    /\ UNCHANGED <<moderation_result, relevant_context, fb_index, llm_response,
                   is_safe_output, gen_calls, retrieval_calls>>
    /\ Frame

\* get_ethical_guidance: the call of the selected provider
EnhancedCallPrimary ==
    /\ pipeline = "enhanced" /\ pc = "call_primary"
    /\ \/ /\ CanSucceed(provider)
          /\ \E content \in GeneratedTexts :
                llm_response' = CallResponse(provider, content)
          /\ gen_calls' = Append(gen_calls, Call(provider, TRUE))
          /\ pc' = "assemble"
          /\ fb_index' = fb_index
       \/ /\ gen_calls' = Append(gen_calls, Call(provider, FALSE))
          /\ pc' = "fallback"
          /\ fb_index' = 1
          /\ llm_response' = llm_response
    /\ UNCHANGED <<moderation_result, relevant_context, provider,
                   is_safe_output, retrieval_calls, outcome>>
    /\ Frame

\* _fallback_provider: one turn of the loop on an available provider
EnhancedFallbackCall ==
    /\ pipeline = "enhanced" /\ pc = "fallback"
    /\ fb_index <= Len(FallbackOrder)
    /\ Available(FallbackOrder[fb_index])
    /\ \/ /\ \E content \in GeneratedTexts :
                llm_response' = [CallResponse(FallbackOrder[fb_index], content)
                                    EXCEPT !.fallback_used = TRUE]
          /\ gen_calls' = Append(gen_calls, Call(FallbackOrder[fb_index], TRUE))
          /\ pc' = "assemble"
          /\ fb_index' = fb_index
       \/ /\ gen_calls' = Append(gen_calls, Call(FallbackOrder[fb_index], FALSE))
          /\ fb_index' = fb_index + 1
          /\ pc' = pc
          /\ llm_response' = llm_response
    /\ UNCHANGED <<moderation_result, relevant_context, provider,
                   is_safe_output, retrieval_calls, outcome>>
    /\ Frame

\* _fallback_provider: one turn of the loop on an unavailable provider
EnhancedFallbackSkip ==
    /\ pipeline = "enhanced" /\ pc = "fallback"
    /\ fb_index <= Len(FallbackOrder)
    /\ ~Available(FallbackOrder[fb_index])
    /\ fb_index' = fb_index + 1
    /\ UNCHANGED <<pc, moderation_result, relevant_context, provider,
                   llm_response, is_safe_output, gen_calls, retrieval_calls,
                   outcome>>
    /\ Frame

\* _fallback_provider: the loop is over, the canned response is returned
EnhancedFallbackUltimate ==
    /\ pipeline = "enhanced" /\ pc = "fallback"
    /\ fb_index > Len(FallbackOrder)
    /\ llm_response' = UltimateFallback
    /\ pc' = "assemble"
    /\ UNCHANGED <<moderation_result, relevant_context, provider, fb_index,
                   is_safe_output, gen_calls, retrieval_calls, outcome>>
    /\ Frame

\* a provider call, of get_ethical_guidance or of _fallback_provider, that
\* never answers: nothing bounds the wait
EnhancedGenerateNeverReturns ==
    /\ pipeline = "enhanced"
    /\ \/ pc = "call_primary"
       \/ /\ pc = "fallback"
          /\ fb_index <= Len(FallbackOrder)
          /\ Available(FallbackOrder[fb_index])
    /\ faults' = faults \cup {"generate_never_returns"}
    /\ pc' = "waiting"
    /\ UNCHANGED <<moderation_result, relevant_context, provider, fb_index,
                   llm_response, is_safe_output, gen_calls, retrieval_calls,
                   outcome>>
    /\ UNCHANGED Services

\* the task step 10 hands to BackgroundTasks
LogInteraction == "_log_interaction"

\* steps 4 to 10 with the logging task handed off before the response is
\* built
EnhancedAssembleLogFirst ==
    /\ pipeline = "enhanced" /\ pc = "assemble"
    /\ background_tasks' = Append(background_tasks, LogInteraction)
    /\ outcome' = BuildResponse(relevant_context, moderation_result, llm_response)
    /\ pc' = "done"
    /\ UNCHANGED <<moderation_result, relevant_context, provider, fb_index,
                   llm_response, is_safe_output, gen_calls, retrieval_calls,
                   providers, gemini_model, openai_client, pipeline, request,
                   raised_before, faults, start, chunks>>

\* steps 4 to 10, and the handler of any exception they raise: the logging
\* task is added once the response is built, just before it is returned
EnhancedAssemble ==
    /\ pipeline = "enhanced" /\ pc = "assemble"
    /\ LET response == BuildResponse(relevant_context, moderation_result,
                                     llm_response)
       IN  /\ outcome' = response
           /\ background_tasks' =
                 IF response.status_code = 200
                    THEN Append(background_tasks, LogInteraction)
                    ELSE background_tasks
    /\ pc' = "done"
    /\ UNCHANGED <<moderation_result, relevant_context, provider, fb_index,
                   llm_response, is_safe_output, gen_calls, retrieval_calls,
                   providers, gemini_model, openai_client, pipeline, request,
                   raised_before, faults, start, chunks>>

(* The legacy endpoint: chat_endpoint *)
ReceiveLegacy ==
    \E q \in Queries :
        Accept("legacy", [user_query |-> q, preferred_llm |-> "gemini",
                          image_data |-> FALSE, user_stress_level |-> None],
               "check_input")

\* step 1: check_input; an unsafe message is answered with the refusal
LegacyCheckInput ==
    /\ pipeline = "legacy" /\ pc = "check_input"
    /\ LET is_safe_input == CheckInput(request.user_query)
       IN  /\ moderation_result' = [is_safe |-> is_safe_input]
           /\ IF ~is_safe_input
                 THEN /\ outcome' = ChatResponse(RefusalMessage)
                      /\ pc' = "done"
                 ELSE /\ outcome' = outcome
                      /\ pc' = "retrieve"
    /\ UNCHANGED <<relevant_context, provider, fb_index, llm_response,
                   is_safe_output, gen_calls, retrieval_calls>>
    /\ Frame

\* step 2: RAGService.get_relevant_context
LegacyRetrieve ==
    /\ pipeline = "legacy" /\ pc = "retrieve"
    /\ relevant_context' = LegacyRelevantDocs(request.user_query)
    /\ retrieval_calls' = retrieval_calls + 1
    /\ pc' = "generate"
    /\ UNCHANGED <<moderation_result, provider, fb_index, llm_response,
                   is_safe_output, gen_calls, outcome>>
    /\ Frame

\* step 3: LLMService.generate_response with the default model
LegacyGenerate ==
    /\ pipeline = "legacy" /\ pc = "generate"
    /\ IF gemini_model
          THEN \/ /\ \E content \in GeneratedTexts : llm_response' = content
                  /\ gen_calls' = Append(gen_calls, Call("gemini", TRUE))
               \/ /\ llm_response' = GenerateFallbackResponse(request.user_query)
                  /\ gen_calls' = Append(gen_calls, Call("gemini", FALSE))
          ELSE /\ llm_response' = GenerateFallbackResponse(request.user_query)
               /\ gen_calls' = gen_calls
    /\ pc' = "check_output"
    /\ UNCHANGED <<moderation_result, relevant_context, provider, fb_index,
                   is_safe_output, retrieval_calls, outcome>>
    /\ Frame

\* step 4: check_output; an unsafe response is replaced
LegacyCheckOutput ==
    /\ pipeline = "legacy" /\ pc = "check_output"
    /\ is_safe_output' = IF CheckOutput(llm_response) THEN "True" ELSE "False"
    /\ outcome' = ChatResponse(IF ~CheckOutput(llm_response)
                                  THEN ReformulationMessage
                                  ELSE llm_response)
    /\ pc' = "done"
    /\ UNCHANGED <<moderation_result, relevant_context, provider, fb_index,
                   llm_response, gen_calls, retrieval_calls>>
    /\ Frame

(* The health endpoint: health_check *)
\* LLMOrchestrator.check_health: one boolean per entry of self.providers
CheckHealth == [p \in DOMAIN providers |-> providers[p].available]

\* the dictionary health_check returns; a dictionary is true when it has an
\* entry
HealthReport(llm_status, rag_status, guardrails_status) ==
    [status |-> "healthy",
     services |->
        [llm_orchestrator |-> IF DOMAIN llm_status # {}
                                 THEN "operational" ELSE "degraded",
         rag_service |-> IF rag_status THEN "operational" ELSE "degraded",
         guardrails |-> IF guardrails_status
                           THEN "operational" ELSE "degraded"],
     llm_providers |-> llm_status]

ReceiveHealth == Accept("health", None, "health_check")

\* a health check that reinstates every provider it probes
HealthCheckReinstating ==
    /\ pipeline = "health" /\ pc = "health_check"
    /\ providers' = [p \in DOMAIN providers |-> [available |-> TRUE]]
    /\ \E is_initialized \in BOOLEAN :
          /\ outcome' = HealthReport(CheckHealth, is_initialized, TRUE)
          /\ faults' = IF is_initialized THEN faults
                       ELSE faults \cup {"store_not_initialized"}
    /\ pc' = "done"
    /\ UNCHANGED <<gemini_model, openai_client, pipeline, request,
                   raised_before, background_tasks, start, chunks,
                   moderation_result, relevant_context,
                   provider, fb_index, llm_response, is_safe_output,
                   gen_calls, retrieval_calls>>

\* health_check: the three probes and the report.  The probe of the RAG
\* service is its is_initialized (a search that fails is answered with an
\* empty list, which the probe accepts); the probe of the guardrails is true
\* as moderate_content always returns a verdict.
HealthCheck ==
    /\ pipeline = "health" /\ pc = "health_check"
    /\ \E is_initialized \in BOOLEAN :
          /\ outcome' = HealthReport(CheckHealth, is_initialized, TRUE)
          /\ faults' = IF is_initialized THEN faults
                       ELSE faults \cup {"store_not_initialized"}
    /\ pc' = "done"
    /\ UNCHANGED <<moderation_result, relevant_context, provider, fb_index,
                   llm_response, is_safe_output, gen_calls, retrieval_calls>>
    /\ UNCHANGED Services

Next ==
    \/ ReceiveEnhanced
    \/ EnhancedModerateInput
    \/ EnhancedModerateInputError
    \/ EnhancedRetrieve
    \/ EnhancedRetrieveNeverReturns
    \/ EnhancedSelect
    \/ EnhancedCallPrimary
    \/ EnhancedFallbackCall
    \/ EnhancedFallbackSkip
    \/ EnhancedFallbackUltimate
    \/ EnhancedGenerateNeverReturns
    \/ EnhancedAssemble
    \/ ReceiveLegacy
    \/ LegacyCheckInput
    \/ LegacyRetrieve
    \/ LegacyGenerate
    \/ LegacyCheckOutput
    \/ ReceiveHealth
    \/ HealthCheck
    \/ Return

Spec == Init /\ [][Next]_vars

(***************************************************************************)
(* The moderation engine called on its own                                 *)
(***************************************************************************)
InitModeration ==
    /\ providers = InitializeProviders(FALSE, FALSE)
    /\ gemini_model = FALSE
    /\ openai_client \in BOOLEAN
    /\ NoRequest
    /\ raised_before = {}

\* a caller hands a text to moderate_content
ModerationReceive ==
    \E text \in Texts :
        Accept("moderation",
               [user_query |-> text, preferred_llm |-> "auto",
                image_data |-> FALSE, user_stress_level |-> None],
               "moderate_input")

\* moderate_content returns its verdict
ModerationCheck ==
    /\ pipeline = "moderation" /\ pc = "moderate_input"
    /\ \E api \in (IF openai_client THEN ModerationApiAnswers ELSE {NoClient}) :
          /\ moderation_result' = ModerateContent(request.user_query, api)
          /\ faults' = IF api.client /\ api.raises
                          THEN faults \cup {"external_moderation_raised"}
                          ELSE faults
    /\ pc' = "moderate_again"
    /\ UNCHANGED <<providers, gemini_model, openai_client, pipeline, request,
                   relevant_context, provider, fb_index, llm_response,
                   is_safe_output, gen_calls, retrieval_calls, outcome,
                   raised_before, background_tasks, start, chunks>>

\* the caller hands the same text to moderate_content a second time
ModerationCheckAgain ==
    /\ pipeline = "moderation" /\ pc = "moderate_again"
    /\ \E api \in (IF openai_client THEN ModerationApiAnswers ELSE {NoClient}) :
          outcome' = ModerateContent(request.user_query, api)
    /\ pc' = "done"
    /\ UNCHANGED <<providers, gemini_model, openai_client, pipeline, request,
                   moderation_result, relevant_context, provider, fb_index,
                   llm_response, is_safe_output, gen_calls, retrieval_calls,
                   raised_before, faults, background_tasks, start, chunks>>

NextModeration ==
    \/ ModerationReceive
    \/ ModerationCheck
    \/ ModerationCheckAgain
    \/ Return

SpecModeration == InitModeration /\ [][NextModeration]_vars

(***************************************************************************)
(* The legacy guardrails called on their own                               *)
(***************************************************************************)
\* pieces of text the legacy guardrails are given
HarmFragments ==
    {"kill", "Hate", "racismo", "how to harm", "peace", "crime",
     "hate everyone", "I want to die"}

RECURSIVE HarmTextsOf(_)
HarmTextsOf(n) ==
    IF n = 1 THEN HarmFragments
    ELSE {t \o " " \o f : t \in HarmTextsOf(n - 1), f \in HarmFragments}

HarmTexts == UNION {HarmTextsOf(n) : n \in 1..MaxFragments}

InitGuardrails ==
    /\ providers = InitializeProviders(FALSE, FALSE)
    /\ gemini_model = FALSE
    /\ openai_client = FALSE
    /\ NoRequest
    /\ raised_before = {}

\* a caller hands a text to the guardrails
GuardrailsReceive ==
    \E text \in HarmTexts :
        Accept("guardrails",
               [user_query |-> text, preferred_llm |-> "gemini",
                image_data |-> FALSE, user_stress_level |-> None],
               "check_input")

\* check_input returns its verdict on the text
GuardrailsCheckInput ==
    /\ pipeline = "guardrails" /\ pc = "check_input"
    /\ moderation_result' = [is_safe |-> CheckInput(request.user_query)]
    /\ pc' = "check_output"
    /\ UNCHANGED <<relevant_context, provider, fb_index, llm_response,
                   is_safe_output, gen_calls, retrieval_calls, outcome>>
    /\ Frame

\* check_output returns its verdict on the same text
GuardrailsCheckOutput ==
    /\ pipeline = "guardrails" /\ pc = "check_output"
    /\ is_safe_output' = IF CheckOutput(request.user_query)
                            THEN "True" ELSE "False"
    /\ pc' = "done"
    /\ UNCHANGED <<moderation_result, relevant_context, provider, fb_index,
                   llm_response, gen_calls, retrieval_calls, outcome>>
    /\ Frame

NextGuardrails ==
    \/ GuardrailsReceive
    \/ GuardrailsCheckInput
    \/ GuardrailsCheckOutput
    \/ Return

SpecGuardrails == InitGuardrails /\ [][NextGuardrails]_vars

(***************************************************************************)
(* _select_provider on its own: every content of self.providers, each      *)
(* selection made twice                                                    *)
(***************************************************************************)
\* self.providers: gemini and claude have an entry, available, or none;
\* gemma_3n has an entry whose flag is the literal of _initialize_providers
\* or the value its comment announces
AvailabilitySnapshots ==
    {[p \in ({"gemma_3n"} \cup keyed) |-> [available |-> p \in keyed \/ gemma]] :
        keyed \in SUBSET {"gemini", "claude"}, gemma \in BOOLEAN}

InitSelection ==
    /\ providers \in AvailabilitySnapshots
    /\ gemini_model = ("gemini" \in DOMAIN providers)
    /\ openai_client = FALSE
    /\ NoRequest
    /\ raised_before = {}

\* the arguments of _select_provider: preferred, and context with or without
\* image_data
SelectionReceive ==
    \E preferred \in PreferredProviders, has_image \in BOOLEAN :
        Accept("selection",
               [user_query |-> "How can I reduce my news anxiety?",
                preferred_llm |-> preferred, image_data |-> has_image,
                user_stress_level |-> None],
               "select")

\* the first call of _select_provider
SelectionSelect ==
    /\ pipeline = "selection" /\ pc = "select"
    /\ provider' = SelectProvider(request.preferred_llm, request.image_data)
    /\ pc' = "select_again"
    /\ UNCHANGED <<moderation_result, relevant_context, fb_index, llm_response,
                   is_safe_output, gen_calls, retrieval_calls, outcome>>
    /\ Frame

\* the second call, with the same arguments
SelectionSelectAgain ==
    /\ pipeline = "selection" /\ pc = "select_again"
    /\ outcome' = SelectProvider(request.preferred_llm, request.image_data)
    /\ pc' = "done"
    /\ UNCHANGED <<moderation_result, relevant_context, provider, fb_index,
                   llm_response, is_safe_output, gen_calls, retrieval_calls>>
    /\ Frame

NextSelection ==
    \/ SelectionReceive
    \/ SelectionSelect
    \/ SelectionSelectAgain
    \/ Return

SpecSelection == InitSelection /\ [][NextSelection]_vars

(***************************************************************************)
(* moderate_content and steer_conversation_ethically on the same query     *)
(***************************************************************************)
\* words of the off-topic patterns of the moderation, some of them also in
\* the patterns of the redirect, and one on-topic word
SteerFragments ==
    {"invest", "stock", "vote", "doctor", "treatment", "lawyer", "sue",
     "party", "help"}

RECURSIVE SteerTextsOf(_)
SteerTextsOf(n) ==
    IF n = 1 THEN SteerFragments
    ELSE {t \o " " \o f : t \in SteerTextsOf(n - 1), f \in SteerFragments}

SteerTexts == UNION {SteerTextsOf(n) : n \in 1..MaxFragments}

InitSteer ==
    /\ providers = InitializeProviders(FALSE, FALSE)
    /\ gemini_model = FALSE
    /\ openai_client = FALSE
    /\ NoRequest
    /\ raised_before = {}

SteerReceive ==
    \E text \in SteerTexts :
        Accept("steer",
               [user_query |-> text, preferred_llm |-> "auto",
                image_data |-> FALSE, user_stress_level |-> None],
               "moderate_input")

\* moderate_content returns its verdict on the query
SteerModerate ==
    /\ pipeline = "steer" /\ pc = "moderate_input"
    /\ moderation_result' = ModerateContent(request.user_query, NoClient)
    /\ pc' = "steer"
    /\ UNCHANGED <<relevant_context, provider, fb_index, llm_response,
                   is_safe_output, gen_calls, retrieval_calls, outcome>>
    /\ Frame

\* steer_conversation_ethically returns its message, or None, on the query
SteerRedirect ==
    /\ pipeline = "steer" /\ pc = "steer"
    /\ outcome' = SteerConversationEthically(request.user_query)
    /\ pc' = "done"
    /\ UNCHANGED <<moderation_result, relevant_context, provider, fb_index,
                   llm_response, is_safe_output, gen_calls, retrieval_calls>>
    /\ Frame

NextSteer ==
    \/ SteerReceive
    \/ SteerModerate
    \/ SteerRedirect
    \/ Return

SpecSteer == InitSteer /\ [][NextSteer]_vars

(***************************************************************************)
(* get_relevant_context on its own: the conversion of distances to         *)
(* relevance scores on both paths, and the sources built from them         *)
(***************************************************************************)
\* distances, in hundredths, an index created without a metric (squared L2,
\* between embeddings of norm 1) can answer with: from 0 to 4
Distances == {0, 50, 100, 150, 200, 250, 400}

\* answers of two passages, nearest first
DistanceResults ==
    {<<[doc_id |-> 1, distance |-> pair[1]],
       [doc_id |-> 2, distance |-> pair[2]]>> :
        pair \in {p \in Distances \X Distances : p[1] <= p[2]}}

InitRetrieval ==
    /\ providers = InitializeProviders(FALSE, FALSE)
    /\ gemini_model = FALSE
    /\ openai_client = FALSE
    /\ NoRequest
    /\ raised_before = {}

\* a query reaches get_relevant_context; the store is the LangChain vector
\* store, or the collection used when no embeddings could be loaded
RetrievalReceive ==
    \E path \in {"vector_store", "collection"}, docs \in DistanceResults :
        Accept("retrieval", [path |-> path, docs |-> docs], "retrieve")

\* get_relevant_context: the passages with their relevance_score
RetrievalConvert ==
    /\ pipeline = "retrieval" /\ pc = "retrieve"
    /\ relevant_context' = IF request.path = "vector_store"
                              THEN RelevantContext(request.docs)
                              ELSE RelevantContextCollection(request.docs)
    /\ retrieval_calls' = retrieval_calls + 1
    /\ pc' = "assemble"
    /\ UNCHANGED <<moderation_result, provider, fb_index, llm_response,
                   is_safe_output, gen_calls, outcome>>
    /\ Frame

\* step 4 of ask_ethical_guidance: one EthicalSource per passage kept; the
\* constructor raises on a relevance_score outside [0, 1]
RetrievalBuildSources ==
    /\ pipeline = "retrieval" /\ pc = "assemble"
    /\ outcome' = [raised |-> ~SourcesValid(Sources(relevant_context)),
                   sources |-> Sources(relevant_context)]
    /\ pc' = "done"
    /\ UNCHANGED <<moderation_result, relevant_context, provider, fb_index,
                   llm_response, is_safe_output, gen_calls, retrieval_calls>>
    /\ Frame

NextRetrieval ==
    \/ RetrievalReceive
    \/ RetrievalConvert
    \/ RetrievalBuildSources
    \/ Return

SpecRetrieval == InitRetrieval /\ [][NextRetrieval]_vars

(***************************************************************************)
(* scripts/ingest_knowledge.py: chunk_content                              *)
(***************************************************************************)
\* the defaults of chunk_content
chunk_size == 1000
overlap == 200

\* iterations of the loop of chunk_content that are followed
MaxIterations == 6

\* a content is its length and the positions of its newlines; its other
\* characters are letters
ContentLengths == {0, 1, 800, 801, 1000, 1001, 1201, 2500}
NewlinePositions == {50, 200, 999, 1100}
Contents ==
    {[len |-> n, newlines |-> {p \in positions : p < n}] :
        n \in ContentLengths, positions \in SUBSET NewlinePositions}

\* how a slice or a search of Python reads an index: a negative index counts
\* from the end, and the result is kept within the string
SliceIndex(i, len) ==
    IF i < 0 THEN (IF len + i < 0 THEN 0 ELSE len + i)
    ELSE IF i > len THEN len ELSE i

\* content.rfind('\n', from, to): the last newline of the range, or -1
rfind(content, from, to) ==
    LET found == {p \in content.newlines :
                     /\ SliceIndex(from, content.len) <= p
                     /\ p < SliceIndex(to, content.len)}
    IN  IF found = {} THEN -1
        ELSE CHOOSE p \in found : \A q \in found : q <= p

\* content[from:to].strip() is not empty: the slice holds a letter
Strips(content, from, to) ==
    \E p \in SliceIndex(from, content.len)..(SliceIndex(to, content.len) - 1) :
        p \notin content.newlines

InitChunk ==
    /\ providers = InitializeProviders(FALSE, FALSE)
    /\ gemini_model = FALSE
    /\ openai_client = FALSE
    /\ NoRequest
    /\ raised_before = {}

\* create_embeddings_data, or any caller, calls chunk_content(content)
ChunkReceive ==
    \E content \in Contents : Accept("chunk", content, "loop")

\* one iteration of the while loop
ChunkLoop ==
    /\ pipeline = "chunk" /\ pc = "loop"
    /\ start < request.len
    /\ retrieval_calls < MaxIterations
    /\ LET first_end == start + chunk_size
           newline_pos == rfind(request, start, first_end)
           end == IF first_end < request.len /\ newline_pos # -1
                     THEN newline_pos ELSE first_end
       IN  /\ chunks' = IF Strips(request, start, end)
                           THEN Append(chunks, <<start, end>>)
                           ELSE chunks
           /\ start' = end - overlap
    /\ retrieval_calls' = retrieval_calls + 1
    /\ UNCHANGED <<providers, gemini_model, openai_client, pipeline, pc,
                   request, moderation_result, relevant_context, provider,
                   fb_index, llm_response, is_safe_output, gen_calls, outcome,
                   raised_before, faults, background_tasks>>

\* the loop ends and the chunks are returned
ChunkReturn ==
    /\ pipeline = "chunk" /\ pc = "loop"
    /\ ~(start < request.len)
    /\ outcome' = chunks
    /\ pc' = "done"
    /\ UNCHANGED <<moderation_result, relevant_context, provider, fb_index,
                   llm_response, is_safe_output, gen_calls, retrieval_calls>>
    /\ Frame

NextChunk ==
    \/ ChunkReceive
    \/ ChunkLoop
    \/ ChunkReturn
    \/ Return

SpecChunk == InitChunk /\ [][NextChunk]_vars

(***************************************************************************)
(* Properties                                                              *)
(***************************************************************************)
\* C1: every text given to moderate_content that holds a crisis keyword or
\* matches a crisis regular expression gets a verdict with is_safe false
\* whose flags hold at least one crisis_ tag, whatever on-topic words,
\* off-topic patterns or toxic patterns the text also holds.
C1_CrisisPrecedence ==
    (pipeline = "moderation" /\ pc = "done") =>
        LET text_lower == lower(request.user_query)
            crisis ==
                \/ \E n \in 1..Len(crisis_keywords) :
                        Contains(text_lower, crisis_keywords[n])
                \/ \E n \in 1..Len(crisis_patterns) :
                        re_search(crisis_patterns[n], text_lower)
        IN  crisis =>
                /\ ~moderation_result.is_safe
                /\ \E n \in 1..Len(moderation_result.flags) :
                        MatchAt(moderation_result.flags[n], 1, "crisis_")

\* a crisis text that also holds an on-topic word has been moderated
C1_Witness ==
    /\ pipeline = "moderation" /\ pc = "done"
    /\ request.user_query = "End It All help"
    /\ OnTopicScore(lower(request.user_query)) > 0
    /\ ~moderation_result.is_safe
    /\ moderation_result.flags = <<"crisis_indicator_end_it_all">>

C3_SafeRequestAssembled ==
    (/\ pipeline = "enhanced" /\ pc = "done"
     /\ moderation_result.is_safe
     /\ Len(gen_calls) = 1 /\ gen_calls[1].ok) =>
        LET order == provider_priorities["general_guidance"]
            first == CHOOSE n \in 1..Len(order) :
                        /\ Available(order[n])
                        /\ \A m \in 1..(n - 1) : ~Available(order[m])
        IN  /\ outcome.status_code = 200
            /\ Len(outcome.body.sources) <= TopSources
            /\ outcome.body.llm_metadata.provider_used = order[first]
            /\ ~outcome.body.llm_metadata.fallback_used

\* C4: a provider whose call raised is marked unavailable by the time the
\* request ends, is not called again by the fallback of the same request,
\* and is never called by a later request of the same process.
C4_FailedProviderRetired ==
    /\ \A p \in raised_before \cup (IF pc = "done" THEN RaisedNow ELSE {}) :
          ~Available(p)
    /\ pipeline = "enhanced" =>
          \A n \in 1..Len(gen_calls) :
              /\ gen_calls[n].provider \notin raised_before
              /\ \A m \in 1..(n - 1) :
                    ~gen_calls[m].ok =>
                        gen_calls[n].provider # gen_calls[m].provider

\* C5: when the caller prefers a provider other than auto and that provider
\* is unavailable, the selected provider is another one, available, and the
\* fallback_used the response metadata is built from is true.
C5_UnavailablePreferredIsFallback ==
    (/\ pipeline = "enhanced" /\ pc = "assemble"
     /\ request.preferred_llm # "auto"
     /\ ~Available(request.preferred_llm)) =>
        /\ provider # request.preferred_llm
        /\ Available(provider)
        /\ llm_response.fallback_used

\* C6: when no provider is available the request fails with the reason code
\* no_provider_available, distinct from internal_error.
C6_NoProviderReasonCode ==
    (/\ pipeline = "enhanced" /\ pc = "done"
     /\ moderation_result.is_safe
     /\ \A p \in LLMProvider : ~Available(p)) =>
        /\ outcome.status_code # 200
        /\ outcome.error_code = "no_provider_available"

\* C7: when every provider call of a request has failed and the fallback
\* chain is exhausted, the orchestrator hands no response to the endpoint
\* and the request ends failed.
C7_ExhaustedChainFails ==
    (/\ pipeline = "enhanced" /\ pc \in {"assemble", "done"}
     /\ gen_calls # <<>>
     /\ \A n \in 1..Len(gen_calls) : ~gen_calls[n].ok) =>
        /\ pc = "done"
        /\ outcome.status_code # 200

\* C8: every text that matches an off-topic pattern and holds at least one
\* on-topic keyword gets a verdict with is_safe true whose flags are
\* exactly {mild_off_topic}.
C8_MildOffTopic ==
    (pipeline = "moderation" /\ pc = "done") =>
        LET text_lower == lower(request.user_query)
            off_topic == \E n \in 1..Len(off_topic_patterns) :
                            re_search(off_topic_patterns[n], text_lower)
            flags == moderation_result.flags
        IN  (off_topic /\ OnTopicScore(text_lower) > 0) =>
                /\ moderation_result.is_safe
                /\ {flags[n] : n \in 1..Len(flags)} = {"mild_off_topic"}

\* C9: a request blocked for the financial off-topic pattern is answered
\* with the financial redirect of steer_conversation_ethically, and no
\* provider call is made for it.
C9_FinancialRedirect ==
    (/\ pipeline = "enhanced" /\ pc = "done"
     /\ ~moderation_result.is_safe
     /\ \E n \in 1..Len(moderation_result.flags) :
            moderation_result.flags[n] = "off_topic_invest") =>
        /\ outcome.message = SteerConversationEthically(request.user_query)
        /\ gen_calls = <<>>

\* C10: on both endpoints, content a provider generated reaches the
\* assembly of the response, and the caller, only after output moderation,
\* and when the output verdict is unsafe the caller receives the
\* reformulation message.
C10_OutputModerated ==
    (/\ pipeline \in {"enhanced", "legacy"} /\ pc \in {"assemble", "done"}
     /\ \E n \in 1..Len(gen_calls) : gen_calls[n].ok) =>
        /\ is_safe_output # None
        /\ is_safe_output = "False" => outcome.message = ReformulationMessage

\* C11: check_output blocks every text that holds at least one harmful
\* keyword, while check_input lets through a text that holds exactly one
\* harmful keyword and matches no harmful pattern.
C11_OutputStricterThanInput ==
    (pipeline = "guardrails" /\ pc = "done") =>
        LET text_lower == lower(request.user_query)
            hits == {n \in 1..Len(harmful_keywords) :
                        Contains(text_lower, harmful_keywords[n])}
            pattern == \E n \in 1..Len(harmful_patterns) :
                            re_search(harmful_patterns[n], text_lower)
        IN  /\ hits # {} => is_safe_output = "False"
            /\ (Cardinality(hits) = 1 /\ ~pattern) =>
                    moderation_result.is_safe

\* a text with exactly one harmful keyword has passed check_input and has
\* been blocked by check_output
C11_Witness ==
    /\ pipeline = "guardrails" /\ pc = "done"
    /\ request.user_query = "kill"
    /\ HarmfulCount(lower(request.user_query)) = 1
    /\ moderation_result.is_safe
    /\ is_safe_output = "False"

C15_RetrievalFailureIsEmptyContext ==
    (/\ pipeline = "enhanced"
     /\ faults \cap {"store_not_initialized", "search_raised"} # {}) =>
        /\ pc \in {"select", "call_primary", "fallback", "assemble",
                   "waiting", "done"}
        /\ retrieval_calls = 1
        /\ pc = "done" =>
              \/ gen_calls # <<>>
              \/ /\ SelectProvider(request.preferred_llm, request.image_data)
                       = Raise
                 /\ outcome = InternalError("No LLM providers available")
        /\ relevant_context = <<>>

\* the search raised, and a provider has been called with empty context
C15_Witness ==
    /\ pipeline = "enhanced" /\ pc = "done"
    /\ "search_raised" \in faults
    /\ relevant_context = <<>>
    /\ gen_calls # <<>>

\* C14: moderate_content never raises.  When a check inside it raises, it
\* returns a verdict with is_safe true, flags exactly [moderation_error] and
\* confidence 0.1 (10 hundredths), and the request goes on as for safe
\* input: it is not blocked and retrieval is called.
C14_ModerationErrorIsPermissive ==
    (/\ pipeline = "enhanced"
     /\ "moderation_raised" \in faults) =>
        /\ moderation_result.is_safe
        /\ moderation_result.flags = <<"moderation_error">>
        /\ moderation_result.confidence = 10
        /\ pc \in {"retrieve", "select", "call_primary", "fallback",
                   "assemble", "waiting", "done"}
        /\ pc # "retrieve" => retrieval_calls = 1
        /\ pc = "done" => outcome.error_code # "content_filtered"

\* a check of moderate_content raised on the crisis query, and the request
\* went on to a provider call
C14_Witness ==
    /\ pipeline = "enhanced" /\ pc = "done"
    /\ "moderation_raised" \in faults
    /\ request.user_query = "I want to end it all"
    /\ moderation_result.flags = <<"moderation_error">>
    /\ gen_calls # <<>>

C19_FallbackGoesToNextProvider ==
    pipeline = "enhanced" =>
        \A n \in 2..Len(gen_calls) :
            ~gen_calls[n - 1].ok =>
                LET order == provider_priorities["general_guidance"]
                    failed == {gen_calls[m].provider : m \in 1..(n - 1)}
                    rest == {k \in 1..Len(order) :
                                /\ Available(order[k])
                                /\ order[k] \notin failed}
                IN  /\ rest # {}
                    /\ gen_calls[n].provider
                          = order[CHOOSE k \in rest : \A j \in rest : k <= j]

\* C20: a request one of whose calls (retrieval or provider generation)
\* never returns still goes on to a terminal outcome: the call is cut off,
\* so the request has either ended or can take a further step.
C20_UnansweredCallIsCutOff ==
    (/\ pipeline = "enhanced"
     /\ faults \cap {"search_never_returns", "generate_never_returns"} # {}) =>
        \/ pc = "done"
        \/ ENABLED Next

\* C21 as stated: every verdict moderate_content returns has is_safe true
\* if and only if its flag list is empty or holds only mild_off_topic.
C21_AggregateRule ==
    (/\ pipeline = "enhanced"
     /\ pc \notin {"idle", "moderate_input"}) =>
        LET flags == moderation_result.flags
        IN  moderation_result.is_safe <=>
                \/ Len(flags) = 0
                \/ \A n \in 1..Len(flags) : flags[n] = "mild_off_topic"

\* C21 amended: every verdict moderate_content returns from its checks has
\* is_safe true if and only if its flag list is empty or holds only
\* mild_off_topic; the verdict of its except branch is the one exception:
\* is_safe true with flags exactly [moderation_error].
C21_AggregateRuleButOnError ==
    (/\ pipeline = "enhanced"
     /\ pc \notin {"idle", "moderate_input"}) =>
        LET flags == moderation_result.flags
        IN  IF "moderation_raised" \in faults
               THEN /\ moderation_result.is_safe
                    /\ flags = <<"moderation_error">>
               ELSE moderation_result.is_safe <=>
                       \/ Len(flags) = 0
                       \/ \A n \in 1..Len(flags) : flags[n] = "mild_off_topic"

\* the checks of moderate_content ran without raising and returned an
\* unsafe verdict with a flag
C21_Witness ==
    /\ pipeline = "enhanced" /\ pc = "done"
    /\ "moderation_raised" \notin faults
    /\ ~moderation_result.is_safe
    /\ Len(moderation_result.flags) >= 1

\* C22: the external moderation call is additive and fails open.  When it
\* raises, is_safe and flags of the verdict are those of the rule-based
\* checks alone; whatever it answers, the flags of the rule-based checks stay
\* in the verdict, in their place, and a verdict unsafe by the rule-based
\* checks stays unsafe.
C22_ExternalModerationAdditive ==
    (/\ pipeline = "moderation"
     /\ pc \in {"moderate_again", "done"}
     /\ openai_client) =>
        LET base == ModerateContent(request.user_query, NoClient)
            verdict == moderation_result
        IN  /\ "external_moderation_raised" \in faults =>
                  /\ verdict.is_safe = base.is_safe
                  /\ verdict.flags = base.flags
            /\ Len(verdict.flags) >= Len(base.flags)
            /\ SubSeq(verdict.flags, 1, Len(base.flags)) = base.flags
            /\ verdict.is_safe => base.is_safe

\* the external moderation call raised on a harmless text, and the verdict
\* is safe without flags
C22_Witness ==
    /\ pipeline = "moderation" /\ pc = "done"
    /\ openai_client
    /\ "external_moderation_raised" \in faults
    /\ request.user_query = "help"
    /\ moderation_result.is_safe
    /\ moderation_result.flags = <<>>

\* C23: the internal-error response does not depend on the text of the
\* exception: the response a failed request is given is the response any
\* other internal exception of the pipeline would have been answered with.
C23_InternalErrorIsGeneric ==
    (/\ pipeline = "enhanced" /\ pc = "done"
     /\ outcome.error_code = "internal_error") =>
        \A e \in {"No LLM providers available",
                  "'gemini-pro' is not a valid LLMProvider",
                  "'claude-3-sonnet' is not a valid LLMProvider",
                  "'fallback' is not a valid LLMProvider"} :
            outcome = InternalError(e)

\* C24: no step of a request or of a health check makes a provider
\* available that was not: a provider without entry stays without entry and
\* a flag that is false stays false.
C24_UnavailableStaysUnavailable ==
    [][\A p \in {"gemini", "claude", "gemma_3n"} :
          ~Available(p) =>
              ~(p \in DOMAIN providers' /\ providers'[p].available)]_vars

\* a health check has been answered after a request whose call to gemini
\* raised, and claude and gemma_3n are still unavailable
C24_Witness ==
    /\ pipeline = "health" /\ pc = "done"
    /\ raised_before = {"gemini"}
    /\ ~Available("claude")
    /\ ~Available("gemma_3n")

\* C29: the health report reflects the probes: its llm_orchestrator entry
\* is operational only if a provider is available and is degraded when none
\* is, and its status is not healthy when the probe of a collaborator (here
\* the RAG service, not initialised) is false.
C29_HealthReportReflectsProbes ==
    (/\ pipeline = "health" /\ pc = "done") =>
        LET some_available ==
                \E p \in {"gemini", "claude", "gemma_3n"} : Available(p)
        IN  /\ outcome.services.llm_orchestrator = "operational"
                  => some_available
            /\ ~some_available
                  => outcome.services.llm_orchestrator = "degraded"
            /\ "store_not_initialized" \in faults
                  => outcome.status # "healthy"

C26_RedirectMatchesModeration ==
    (/\ pipeline = "steer" /\ pc = "done") =>
        LET flag == <<"off_topic_invest", "off_topic_political",
                      "off_topic_medical", "off_topic_legal">>
            word == <<"invest", "vote", "doctor", "lawyer">>
            flags == {moderation_result.flags[n] :
                        n \in 1..Len(moderation_result.flags)}
            flagged == {d \in 1..4 : flag[d] \in flags}
        IN  flagged # {} =>
                outcome \in {SteerConversationEthically(word[d]) :
                                d \in flagged}

\* C27: every relevance_score of get_relevant_context lies in [0, 1] (0 to
\* 100 hundredths) on both paths, a smaller distance gives a score at least
\* as high, and building an EthicalSource from a passage never fails.
C27_RelevanceScoreInRange ==
    (/\ pipeline = "retrieval" /\ pc = "done") =>
        /\ \A i \in 1..Len(relevant_context) :
              /\ relevant_context[i].relevance_score >= 0
              /\ relevant_context[i].relevance_score <= 100
        /\ \A i, j \in 1..Len(relevant_context) :
              request.docs[i].distance <= request.docs[j].distance =>
                  relevant_context[i].relevance_score
                      >= relevant_context[j].relevance_score
        /\ ~outcome.raised

====
